---- MODULE Spec2Model ----
(***************************************************************************)
(* Model of the MethaneAnalyzer cache pipeline: the 1-minute aggregate     *)
(* cache (data/loader.py, data/database_manager.py), the aggregation       *)
(* engine (processing/resampler.py) and the query orchestrator (app.py).   *)
(*                                                                         *)
(* Time is counted in ticks of 30 seconds since the epoch (UTC), so the    *)
(* '30S' window is one tick and '1min' is two.  Numeric cells are exact    *)
(* rationals <<n, d>>; NaN is <<0, 0>>.  A standard deviation is carried   *)
(* as its square (the sample variance): the square root is injective on    *)
(* the non-negative numbers, so equality and missingness are preserved.    *)
(***************************************************************************)
EXTENDS Integers, Sequences, FiniteSets, TLC

VARIABLES disk, file_records, processed, result, lastOp, prevOp, aggIn, budget, page, unreadable, inflight, clock, parse, listing, plot

vars == <<disk, file_records, processed, result, lastOp, prevOp, aggIn, budget, page, unreadable, inflight, clock, parse, listing, plot>>

(***************************************************************************)
(* Exact arithmetic on the values of numeric columns.                      *)
(***************************************************************************)
NaN == <<0, 0>>

IsNaN(x) == x[2] = 0

Abs(n) == IF n < 0 THEN -n ELSE n

RECURSIVE GCD(_, _)
GCD(a, b) == IF b = 0 THEN a ELSE GCD(b, a % b)

Norm(n, d) ==
    LET g == GCD(Abs(n), d)
    IN  IF n = 0 THEN <<0, 1>> ELSE <<n \div g, d \div g>>

Rat(n) == <<n, 1>>

RAdd(x, y) == Norm(x[1] * y[2] + y[1] * x[2], x[2] * y[2])

RSub(x, y) == Norm(x[1] * y[2] - y[1] * x[2], x[2] * y[2])

RMul(x, y) == Norm(x[1] * y[1], x[2] * y[2])

RDivInt(x, k) == Norm(x[1], x[2] * k)

RLess(x, y) == x[1] * y[2] < y[1] * x[2]

RECURSIVE RSum(_)
RSum(xs) == IF xs = <<>> THEN Rat(0) ELSE RAdd(Head(xs), RSum(Tail(xs)))

RECURSIVE RSumSq(_)
RSumSq(xs) ==
    IF xs = <<>> THEN Rat(0)
    ELSE RAdd(RMul(Head(xs), Head(xs)), RSumSq(Tail(xs)))

\* Series.dropna(): the non-missing cells, in order.
DropNa(xs) == SelectSeq(xs, LAMBDA x : ~IsNaN(x))

\* Series.mean() with skipna: the arithmetic mean of the non-missing cells.
SeriesMean(xs) ==
    LET ys == DropNa(xs)
    IN  IF ys = <<>> THEN NaN ELSE RDivInt(RSum(ys), Len(ys))

\* Insertion of one cell into an ascending sequence.
RECURSIVE InsertSorted(_, _)
InsertSorted(x, xs) ==
    IF xs = <<>> THEN <<x>>
    ELSE IF RLess(x, Head(xs)) THEN <<x>> \o xs
    ELSE <<Head(xs)>> \o InsertSorted(x, Tail(xs))

RECURSIVE SortCells(_)
SortCells(xs) ==
    IF xs = <<>> THEN <<>> ELSE InsertSorted(Head(xs), SortCells(Tail(xs)))

\* Series.median() with skipna: the middle cell, or the mean of the two
\* middle cells, of the sorted non-missing cells.
SeriesMedian(xs) ==
    LET ys == SortCells(DropNa(xs))
        n  == Len(ys)
    IN  IF n = 0 THEN NaN
        ELSE IF n % 2 = 1 THEN ys[(n + 1) \div 2]
        ELSE RDivInt(RAdd(ys[n \div 2], ys[n \div 2 + 1]), 2)

\* The population variance (ddof = 0) of the non-missing cells.
SeriesStdPopulation(xs) ==
    LET ys == DropNa(xs)
        n  == Len(ys)
        s  == RSum(ys)
    IN  IF n < 1 THEN NaN
        ELSE RDivInt(RSub(RMul(Rat(n), RSumSq(ys)), RMul(s, s)), n * n)

\* Series.std() (ddof = 1, skipna), squared: the sample variance of the
\* non-missing cells, missing when fewer than two of them exist.
SeriesStd(xs) ==
    LET ys == DropNa(xs)
        n  == Len(ys)
        s  == RSum(ys)
    IN  IF n < 2 THEN NaN
        ELSE RDivInt(RSub(RMul(Rat(n), RSumSq(ys)), RMul(s, s)), n * (n - 1))

\* lambda x: x.mean() / x.median() if len(x.dropna()) > 0 else np.nan
AggCentral(xs, agg_method) ==
    IF Len(DropNa(xs)) > 0
    THEN (IF agg_method = "median" THEN SeriesMedian(xs) ELSE SeriesMean(xs))
    ELSE NaN

\* lambda x: x.std() if len(x.dropna()) > 0 else np.nan, for every method
AggStd(xs, agg_method) ==
    IF Len(DropNa(xs)) > 0 THEN SeriesStd(xs) ELSE NaN

(***************************************************************************)
(* Tables.  A DataFrame is a set of column names and a sequence of rows,   *)
(* each row a function from the column names to cells.  The cell of a time *)
(* column is a tick; the cell of a numeric column is a rational or NaN.    *)
(***************************************************************************)
EmptyFrame == [cols |-> {}, rows |-> <<>>]

\* DataFrame.empty: no rows or no columns.
IsEmpty(df) == df.cols = {} \/ df.rows = <<>>

Column(rows, c) == [i \in 1..Len(rows) |-> rows[i][c]]

Range(f) == {f[i] : i \in DOMAIN f}

SetMin(S) == CHOOSE x \in S : \A y \in S : x <= y

SetMax(S) == CHOOSE x \in S : \A y \in S : y <= x

\* TIME_WINDOW_OPTIONS, in ticks of 30 seconds.
WindowTicks(w) ==
    CASE w = "30S"   -> 1
      [] w = "1min"  -> 2
      [] w = "5min"  -> 10
      [] w = "10min" -> 20
      [] w = "30min" -> 60
      [] w = "1H"    -> 120

\* time_window.replace('T', 'min'): the legacy minute alias is rewritten,
\* every label of TIME_WINDOW_OPTIONS is left as it is.
CorrectedWindow(w) ==
    CASE w = "1T" -> "1min"
      [] w = "5T" -> "5min"
      [] OTHER    -> w

\* The left edge of the bucket of width W that holds tick t (buckets are
\* left-closed and aligned to the epoch).
BucketOf(t, W) == (t \div W) * W

\* DataFrame.resample(W): the bucket edges from the bucket of the first
\* timestamp to the bucket of the last, every one of them, ascending.
BucketEdges(rows, time_col, W) ==
    LET ts == Range(Column(rows, time_col))
        lo == BucketOf(SetMin(ts), W)
        hi == BucketOf(SetMax(ts), W)
    IN  [k \in 1..((hi - lo) \div W + 1) |-> lo + (k - 1) * W]

BucketRows(rows, time_col, W, b) ==
    SelectSeq(rows, LAMBDA r : BucketOf(r[time_col], W) = b)

\* A central table that leaves out the buckets no sample falls in.
ResampleCentralSkippingEmpty(rows, time_col, numeric_cols, W, agg_method) ==
    LET edges == SelectSeq(BucketEdges(rows, time_col, W),
                           LAMBDA b : BucketRows(rows, time_col, W, b) # <<>>)
    IN  [cols |-> {time_col} \cup numeric_cols,
         rows |-> [k \in DOMAIN edges |->
                     [c \in {time_col} \cup numeric_cols |->
                        IF c = time_col THEN edges[k]
                        ELSE AggCentral(Column(BucketRows(rows, time_col, W, edges[k]), c),
                                        agg_method)]]]

\* resampled.apply(central).reset_index()
ResampleCentral(rows, time_col, numeric_cols, W, agg_method) ==
    LET edges == BucketEdges(rows, time_col, W)
    IN  [cols |-> {time_col} \cup numeric_cols,
         rows |-> [k \in DOMAIN edges |->
                     [c \in {time_col} \cup numeric_cols |->
                        IF c = time_col THEN edges[k]
                        ELSE AggCentral(Column(BucketRows(rows, time_col, W, edges[k]), c),
                                        agg_method)]]]

\* A dispersion table that leaves out the buckets no sample falls in.
ResampleStdSkippingEmpty(rows, time_col, numeric_cols, W, agg_method) ==
    LET edges == SelectSeq(BucketEdges(rows, time_col, W),
                           LAMBDA b : BucketRows(rows, time_col, W, b) # <<>>)
    IN  [cols |-> {time_col} \cup numeric_cols,
         rows |-> [k \in DOMAIN edges |->
                     [c \in {time_col} \cup numeric_cols |->
                        IF c = time_col THEN edges[k]
                        ELSE AggStd(Column(BucketRows(rows, time_col, W, edges[k]), c),
                                    agg_method)]]]

\* resampled.apply(std).reset_index()
ResampleStd(rows, time_col, numeric_cols, W, agg_method) ==
    LET edges == BucketEdges(rows, time_col, W)
    IN  [cols |-> {time_col} \cup numeric_cols,
         rows |-> [k \in DOMAIN edges |->
                     [c \in {time_col} \cup numeric_cols |->
                        IF c = time_col THEN edges[k]
                        ELSE AggStd(Column(BucketRows(rows, time_col, W, edges[k]), c),
                                    agg_method)]]]

\* The columns pandas holds with a numeric dtype.
NumericColumns == {"CO2_dry", "CH4_dry", "H2O", "CO2", "CH4", "C2H6", "Tgas"}

\* DataResampler.resample_data_with_uncertainty; NoWindow is the null window.
NoWindow == "None"

resample_data_with_uncertainty(df, time_window, agg_method, time_col) ==
    IF IsEmpty(df) \/ time_col \notin df.cols \/ time_window = NoWindow
    THEN <<df, EmptyFrame>>
    ELSE LET numeric_cols == (df.cols \ {time_col}) \cap NumericColumns
             W == WindowTicks(CorrectedWindow(time_window))
         IN  IF numeric_cols = {} THEN <<df, EmptyFrame>>
             ELSE <<ResampleCentral(df.rows, time_col, numeric_cols, W, agg_method),
                    ResampleStd(df.rows, time_col, numeric_cols, W, agg_method)>>

\* DataLoader._process_file_data_with_std
process_file_data_with_std(df, time_window, agg_method) ==
    IF IsEmpty(df) \/ "DATETIME" \notin df.cols
    THEN <<EmptyFrame, EmptyFrame>>
    ELSE LET numeric_cols == (df.cols \ {"DATETIME"}) \cap NumericColumns
             W == WindowTicks(CorrectedWindow(time_window))
         IN  IF numeric_cols = {} THEN <<EmptyFrame, EmptyFrame>>
             ELSE <<ResampleCentral(df.rows, "DATETIME", numeric_cols, W, agg_method),
                    ResampleStd(df.rows, "DATETIME", numeric_cols, W, agg_method)>>

\* True of a column name that ends in '_std'.
IsStdCol(c) == c \in {"CO2_dry_std", "CH4_dry_std", "H2O_std", "CO2_std", "CH4_std"}

\* col + '_std' and its inverse std_col.replace('_std', '').
StdName(c) ==
    CASE c = "CO2_dry" -> "CO2_dry_std"
      [] c = "CH4_dry" -> "CH4_dry_std"
      [] c = "H2O"     -> "H2O_std"
      [] c = "CO2"     -> "CO2_std"
      [] c = "CH4"     -> "CH4_std"

BaseName(c) ==
    CASE c = "CO2_dry_std" -> "CO2_dry"
      [] c = "CH4_dry_std" -> "CH4_dry"
      [] c = "H2O_std"     -> "H2O"
      [] c = "CO2_std"     -> "CO2"
      [] c = "CH4_std"     -> "CH4"

\* DataLoader._resample_data_with_std: the numeric columns are those that
\* are neither DATETIME_DISPLAY nor a '_std' column, so the cached
\* dispersion columns take no part in the re-aggregation.
resample_data_with_std(df, time_window, agg_method) ==
    IF IsEmpty(df) \/ "DATETIME" \notin df.cols
    THEN <<EmptyFrame, EmptyFrame>>
    ELSE LET numeric_cols ==
                 {c \in df.cols \ {"DATETIME", "DATETIME_DISPLAY"} :
                    ~IsStdCol(c) /\ c \in NumericColumns}
             W == WindowTicks(CorrectedWindow(time_window))
         IN  IF numeric_cols = {} THEN <<EmptyFrame, EmptyFrame>>
             ELSE <<ResampleCentral(df.rows, "DATETIME", numeric_cols, W, agg_method),
                    ResampleStd(df.rows, "DATETIME", numeric_cols, W, agg_method)>>

(***************************************************************************)
(* The data files.  A file's bytes are one entry of Catalogue; its MD5     *)
(* digest is modelled by the index of the entry (equal bytes, equal        *)
(* digest; distinct entries, distinct digests).                            *)
(***************************************************************************)
Sample(t, ch4, h2o) == [DATETIME |-> t, CH4_dry |-> ch4, H2O |-> h2o]

\* 1: no header line, the parser returns no table;
\* 2: two samples in minute 0, none in minute 1, one in minute 2;
\* 3: one sample in minute 0, a zero and an unparsable CH4_dry cell in minute 1.
Catalogue ==
    << [header |-> FALSE, samples |-> <<>>],
       [header |-> TRUE,
        samples |-> <<Sample(0, Rat(0), Rat(2)), Sample(1, Rat(2), Rat(2)),
                      Sample(4, Rat(4), Rat(4))>>],
       [header |-> TRUE,
        samples |-> <<Sample(1, Rat(4), Rat(2)), Sample(2, Rat(0), Rat(0)),
                      Sample(3, NaN, Rat(0))>>] >>

Contents == 1..Len(Catalogue)

\* The candidate paths of the data root, in sorted order.
AllPaths == <<"f1", "f2">>

Paths == Range(AllPaths)

\* The largest modification time a file takes.
MaxMtime == 2

Mtimes == 1..MaxMtime

NoFile == [present |-> FALSE, content |-> 0, mtime |-> 0]

NoRecord == [present |-> FALSE, hash |-> 0, modified |-> 0]

\* DataLoader._load_picarro_file: no table without a header line or without
\* an accepted data line; the timestamps are taken as UTC.
load_picarro_file(content) ==
    LET c == Catalogue[content]
    IN  IF ~c.header \/ c.samples = <<>>
        THEN [ok |-> FALSE, df |-> EmptyFrame]
        ELSE [ok |-> TRUE,
              df |-> [cols |-> {"DATETIME", "CH4_dry", "H2O"}, rows |-> c.samples]]

\* A discovery that looks into the first day directory only.
get_all_data_files_of_first_day ==
    SelectSeq(AllPaths, LAMBDA f : disk[f].present /\ f = AllPaths[1])

\* DataLoader.get_all_data_files: the data files found, sorted, whatever the
\* day directory they lie in (f1 in one, f2 in the next).
get_all_data_files == SelectSeq(AllPaths, LAMBDA f : disk[f].present)

\* DatabaseManager.calculate_file_hash
calculate_file_hash(f) == disk[f].content

\* calculate_file_hash opens the file: it raises for a file that cannot be
\* opened, and sync_database hashes every data file it found.
HashRaises == \E f \in Range(get_all_data_files) : f \in unreadable

\* os.path.getmtime
getmtime(f) == disk[f].mtime

\* DatabaseManager.get_existing_file_records
get_existing_file_records == file_records

\* A change test that takes any difference of the modification time.
NeedsProcessingIfDiffers(existing_records, f) ==
    IF existing_records[f].present
    THEN \/ calculate_file_hash(f) # existing_records[f].hash
         \/ getmtime(f) # existing_records[f].modified
    ELSE TRUE

\* The test of DataLoader.sync_database on one discovered file: a new file,
\* a changed hash, or a modification time later than the recorded one.
NeedsProcessing(existing_records, f) ==
    IF existing_records[f].present
    THEN \/ calculate_file_hash(f) # existing_records[f].hash
         \/ getmtime(f) > existing_records[f].modified
    ELSE TRUE

\* The stored DATETIME text of a bucket: isoformat(' ') of an aware UTC
\* timestamp, 'YYYY-MM-DD HH:MM:SS+00:00'.
StoredText(t) == [t |-> t, suffix |-> "+00:00"]

\* strftime('%Y-%m-%d %H:%M:%S') of a query bound: no offset suffix.
BoundText(t) == [t |-> t, suffix |-> ""]

\* SQLite's comparison of two such texts: the fixed-width date and time
\* first, then the shorter text before the longer one.
TextLeq(a, b) ==
    \/ a.t < b.t
    \/ a.t = b.t /\ (a.suffix = "" \/ a.suffix = b.suffix)

\* delete_old_processed_data_by_time_window(data_type, time_window,
\* agg_method), called once per pass at loader.py:195: the stored rows of
\* that window and method are removed.
delete_old_processed_data_by_time_window(table, time_window, agg_method) ==
    SelectSeq(table, LAMBDA r : ~(r.time_window = time_window
                                   /\ r.agg_method = agg_method))

\* The required_columns of the picarro table.
RequiredColumns ==
    {"DATETIME", "CO2_dry", "CH4_dry", "H2O", "CO2", "CH4",
     "CO2_dry_std", "CH4_dry_std", "H2O_std", "CO2_std", "CH4_std"}

\* DatabaseManager.insert_processed_data_to_db: the central columns, the
\* dispersion columns under col + '_std', the window and method labels and
\* the source file name.
insert_processed_data_to_db(table, df, df_std, time_window, agg_method, source_file_name) ==
    LET stds      == IF IsEmpty(df_std) THEN {}
                     ELSE {c \in df_std.cols : c # "DATETIME" /\ c \in df.cols}
        available == (df.cols \cup {StdName(x) : x \in stds}) \cap RequiredColumns
        new       == [i \in 1..Len(df.rows) |->
                        [c \in available \cup {"time_window", "agg_method",
                                           "source_file_name"} |->
                           CASE c = "time_window" -> time_window
                             [] c = "agg_method"  -> agg_method
                             [] c = "source_file_name" -> source_file_name
                             [] c \in df.cols     -> df.rows[i][c]
                             [] OTHER             -> df_std.rows[i][BaseName(c)]]]
    IN  IF available = {} THEN table ELSE table \o new

\* DatabaseManager.update_file_record: INSERT OR REPLACE of the record of
\* file_name with the hash and the file's current modification time.
update_file_record(records, file_name, original_path, file_hash) ==
    [records EXCEPT ![file_name] =
        [present |-> TRUE, hash |-> file_hash, modified |-> getmtime(original_path)]]

\* The body of the loop of DataLoader.sync_database for one file.  The
\* calls are those of loader.py:211 and loader.py:216: the path is the
\* identity of the file record, and the rows are tagged with the file they
\* were computed from (a tag no modelled path reads).
ProcessFile(db, f, time_window, agg_method) ==
    LET parsed == load_picarro_file(disk[f].content)
        agg    == process_file_data_with_std(parsed.df, time_window, agg_method)
    IN  IF f \notin unreadable /\ parsed.ok /\ ~IsEmpty(parsed.df) /\ ~IsEmpty(agg[1])
        THEN [table   |-> insert_processed_data_to_db(db.table, agg[1], agg[2],
                                                      time_window, agg_method, f),
              records |-> update_file_record(db.records, f, f,
                                             calculate_file_hash(f))]
        ELSE db

RECURSIVE ProcessFiles(_, _, _, _)
ProcessFiles(db, files, time_window, agg_method) ==
    IF files = <<>> THEN db
    ELSE ProcessFiles(ProcessFile(db, Head(files), time_window, agg_method),
                      Tail(files), time_window, agg_method)

\* The files DataLoader.sync_database marks for reprocessing.
FilesToProcess ==
    SelectSeq(get_all_data_files,
              LAMBDA f : NeedsProcessing(get_existing_file_records, f))

\* A pass that inserts without removing the stored rows first.
SyncResultKeepingRows(time_window, agg_method) ==
    ProcessFiles([table |-> processed, records |-> file_records],
                 FilesToProcess, time_window, agg_method)

\* The cache after one pass of DataLoader.sync_database: the exception of a
\* hash that cannot be computed leaves the pass before it has written.
SyncResult(time_window, agg_method) ==
    IF HashRaises THEN [table |-> processed, records |-> file_records]
    ELSE ProcessFiles([table   |-> delete_old_processed_data_by_time_window(
                                       processed, time_window, agg_method),
                       records |-> file_records],
                      FilesToProcess, time_window, agg_method)

(***************************************************************************)
(* The read path.                                                          *)
(***************************************************************************)
RECURSIVE InsertByTime(_, _)
InsertByTime(r, rows) ==
    IF rows = <<>> THEN <<r>>
    ELSE IF r["DATETIME"] < Head(rows)["DATETIME"] THEN <<r>> \o rows
    ELSE <<Head(rows)>> \o InsertByTime(r, Tail(rows))

\* ORDER BY DATETIME; rows of one DATETIME keep their rowid order.
RECURSIVE OrderByTime(_)
OrderByTime(rows) ==
    IF rows = <<>> THEN <<>>
    ELSE InsertByTime(rows[Len(rows)], OrderByTime(SubSeq(rows, 1, Len(rows) - 1)))

TableColumns(rows) == IF rows = <<>> THEN {} ELSE DOMAIN rows[1]

\* DatabaseManager.query_processed_data_from_db: WHERE DATETIME BETWEEN ?
\* AND ? AND time_window = ? AND agg_method = ? ORDER BY DATETIME, the
\* bounds compared with the stored text.
query_processed_data_from_db(table, start_time, end_time, time_window, agg_method) ==
    LET hit == SelectSeq(table, LAMBDA r :
                   /\ TextLeq(start_time, StoredText(r["DATETIME"]))
                   /\ TextLeq(StoredText(r["DATETIME"]), end_time)
                   /\ r.time_window = time_window
                   /\ r.agg_method = agg_method)
    IN  [cols |-> TableColumns(hit), rows |-> OrderByTime(hit)]

\* The UTC offset of a zone, in ticks (TIMEZONE_OPTIONS).
TimezoneOffset(tz) ==
    CASE tz = "UTC"           -> 0
      [] tz = "Asia/Shanghai" -> 960

\* user_timezone.localize(t).astimezone(pytz.UTC)
LocalToUtc(t, tz) == t - TimezoneOffset(tz)

\* tz_convert(user_timezone): the same instant, shown in the zone.
Display(t, tz) == [utc |-> t, tz |-> tz]

\* The zones of TIMEZONE_OPTIONS with their rules for the year 2024, in
\* ticks: the offsets of standard and of summer time, and the UTC instants
\* between which summer time is in force (2024-03-10 07:00 to 2024-11-03
\* 06:00 in New York, 2024-03-31 01:00 to 2024-10-27 01:00 in London).
ZoneRules ==
    [z \in {"Asia/Shanghai", "UTC", "Europe/London", "America/New_York"} |->
       CASE z = "Asia/Shanghai"    -> [std |-> 960, dst |-> 960, from |-> 0, to |-> 0]
         [] z = "UTC"              -> [std |-> 0, dst |-> 0, from |-> 0, to |-> 0]
         [] z = "Europe/London"    -> [std |-> 0, dst |-> 120,
                                       from |-> 57061560, to |-> 57666360]
         [] z = "America/New_York" -> [std |-> 0 - 600, dst |-> 0 - 480,
                                       from |-> 57001800, to |-> 57687120]]

Zones == DOMAIN ZoneRules

\* tzinfo.utcoffset of the zone at a UTC instant.
utcoffset(zone, utc) ==
    IF ZoneRules[zone].from <= utc /\ utc < ZoneRules[zone].to
    THEN ZoneRules[zone].dst ELSE ZoneRules[zone].std

\* The offsets under which the wall-clock instant exists in the zone.
PossibleOffsets(zone, wall) ==
    {o \in {ZoneRules[zone].std, ZoneRules[zone].dst} : utcoffset(zone, wall - o) = o}

\* Half an hour, in ticks.
HalfHour == 30 * WindowTicks("1min")

\* pytz's step back (and forward again) for a wall-clock instant that does
\* not exist in the zone: six hours.
LocalizeStep == 12 * HalfHour

\* The offset a localization that always reads standard time attaches.
LocalizeOffsetStandard(zone, wall) == ZoneRules[zone].std

\* The offset user_timezone.localize(wall) attaches, is_dst being False: the
\* only possible one; standard time for an instant that exists twice; for an
\* instant that does not exist, the offset in force six hours earlier.
LocalizeOffset(zone, wall) ==
    LET possible == PossibleOffsets(zone, wall)
        earlier  == PossibleOffsets(zone, wall - LocalizeStep)
    IN  IF Cardinality(possible) = 1 THEN CHOOSE o \in possible : TRUE
        ELSE IF Cardinality(possible) = 2 THEN ZoneRules[zone].std
        ELSE IF Cardinality(earlier) = 1 THEN CHOOSE o \in earlier : TRUE
        ELSE ZoneRules[zone].std

\* user_timezone.localize(wall).astimezone(pytz.UTC), for every zone.
localize_to_utc(zone, wall) == wall - LocalizeOffset(zone, wall)

\* .dt.tz_convert(user_timezone): the wall-clock reading of a UTC instant.
tz_convert(zone, utc) == utc + utcoffset(zone, utc)

\* df = df_avg.copy(); df[col + '_std'] = df_std[col] for the columns of df_std
MergeStd(df_avg, df_std) ==
    LET stds == df_std.cols \ {"DATETIME"}
    IN  [cols |-> df_avg.cols \cup {StdName(c) : c \in stds},
         rows |-> [i \in 1..Len(df_avg.rows) |->
                     [c \in df_avg.cols \cup {StdName(x) : x \in stds} |->
                        IF c \in df_avg.cols THEN df_avg.rows[i][c]
                        ELSE df_std.rows[i][BaseName(c)]]]]

\* df['DATETIME_DISPLAY'] = pd.to_datetime(df['DATETIME']).dt.tz_convert(tz)
AddDisplay(df, tz) ==
    [cols |-> df.cols \cup {"DATETIME_DISPLAY"},
     rows |-> [i \in 1..Len(df.rows) |->
                 [c \in df.cols \cup {"DATETIME_DISPLAY"} |->
                    IF c = "DATETIME_DISPLAY" THEN Display(df.rows[i]["DATETIME"], tz)
                    ELSE df.rows[i][c]]]]

\* df[avg_cols]: the columns that do not end in '_std'.
SplitAvg(df) ==
    LET avg_cols == {c \in df.cols : ~IsStdCol(c)}
    IN  [cols |-> avg_cols,
         rows |-> [i \in 1..Len(df.rows) |-> [c \in avg_cols |-> df.rows[i][c]]]]

\* df[['DATETIME_DISPLAY']] plus every '_std' column under its base name.
SplitStd(df) ==
    LET std_cols == {c \in df.cols : IsStdCol(c)}
        out      == {"DATETIME_DISPLAY"} \cup {BaseName(c) : c \in std_cols}
    IN  [cols |-> out,
         rows |-> [i \in 1..Len(df.rows) |->
                     [c \in out |->
                        IF c = "DATETIME_DISPLAY" THEN df.rows[i]["DATETIME_DISPLAY"]
                        ELSE df.rows[i][StdName(c)]]]]

Returned(avg, std) == [raised |-> FALSE, avg |-> avg, std |-> std]

\* An exception that leaves the function.
Raised == [raised |-> TRUE, avg |-> EmptyFrame, std |-> EmptyFrame]

\* load_processed_data with the resampling attempted before df_1min is
\* tested for emptiness.
LoadProcessedResamplingFirst(start_datetime, end_datetime, user_timezone, time_window, agg_method) ==
    LET start_utc_str == BoundText(LocalToUtc(start_datetime, user_timezone))
        end_utc_str   == BoundText(LocalToUtc(end_datetime, user_timezone))
        df_1min       == query_processed_data_from_db(processed, start_utc_str,
                                                      end_utc_str, "1min", agg_method)
        split(df)     == IF IsEmpty(df) THEN Returned(EmptyFrame, EmptyFrame)
                         ELSE LET shown == IF "DATETIME" \in df.cols
                                           THEN AddDisplay(df, user_timezone) ELSE df
                              IN  Returned(SplitAvg(shown), SplitStd(shown))
    IN  IF time_window = "1min" THEN split(df_1min)
        ELSE IF time_window = NoWindow THEN Raised
        ELSE LET re == resample_data_with_std(df_1min, time_window, agg_method)
             IN  split(MergeStd(re[1], re[2]))

\* DataLoader.load_processed_data
load_processed_data(start_datetime, end_datetime, user_timezone, time_window, agg_method) ==
    LET start_utc_str == BoundText(LocalToUtc(start_datetime, user_timezone))
        end_utc_str   == BoundText(LocalToUtc(end_datetime, user_timezone))
        df_1min       == query_processed_data_from_db(processed, start_utc_str,
                                                      end_utc_str, "1min", agg_method)
        split(df)     == IF IsEmpty(df) THEN Returned(EmptyFrame, EmptyFrame)
                         ELSE LET shown == IF "DATETIME" \in df.cols
                                           THEN AddDisplay(df, user_timezone) ELSE df
                              IN  Returned(SplitAvg(shown), SplitStd(shown))
    IN  IF time_window = "1min" THEN split(df_1min)
        ELSE IF IsEmpty(df_1min) THEN Returned(EmptyFrame, EmptyFrame)
        ELSE IF time_window = NoWindow THEN Raised
        ELSE LET re == resample_data_with_std(df_1min, time_window, agg_method)
             IN  split(MergeStd(re[1], re[2]))

\* The percent-to-ppm factor of app.py.
PercentToPpm == 10000

ScaleCell(x, k) == IF IsNaN(x) THEN NaN ELSE RMul(x, Rat(k))

ScaleColumn(df, col, k) ==
    [df EXCEPT !.rows = [i \in 1..Len(df.rows) |->
                           [df.rows[i] EXCEPT ![col] = ScaleCell(@, k)]]]

\* The channels DataResampler.filter_zero_values checks.
CheckedChannels(data_source) ==
    IF data_source = "picarro" THEN {"CO2_dry", "CH4_dry", "H2O"}
    ELSE {"CH4", "C2H6", "H2O"}

\* DataResampler.filter_zero_values: the rows in which every checked column
\* of the table differs from 0 (a missing cell differs from 0).
filter_zero_values(df, data_source) ==
    IF IsEmpty(df) THEN df
    ELSE [df EXCEPT !.rows =
             SelectSeq(df.rows, LAMBDA r :
                 \A c \in CheckedChannels(data_source) \cap df.cols : r[c] # Rat(0))]

\* df[condition] with condition still the scalar True, when the table holds
\* none of the checked columns: a lookup of the column True, KeyError.
FilterRaises(df, data_source) ==
    ~IsEmpty(df) /\ CheckedChannels(data_source) \cap df.cols = {}

\* load_and_process_data of app.py.  A dispersion is carried squared, so the
\* factor applies to it squared.
load_and_process_data(data_source, start_datetime, end_datetime, timezone_str, time_window, agg_method, filter_zero) ==
    LET loaded == load_processed_data(start_datetime, end_datetime, timezone_str,
                                      time_window, agg_method)
        conv   == data_source = "picarro" /\ "H2O" \in loaded.avg.cols
        avg1   == IF conv THEN ScaleColumn(loaded.avg, "H2O", PercentToPpm)
                  ELSE loaded.avg
        std1   == IF conv /\ "H2O_std" \in loaded.std.cols
                  THEN ScaleColumn(loaded.std, "H2O", PercentToPpm * PercentToPpm)
                  ELSE loaded.std
        avg2   == IF filter_zero THEN filter_zero_values(avg1, data_source) ELSE avg1
    IN  IF loaded.raised THEN Raised
        ELSE IF IsEmpty(loaded.avg) THEN Returned(EmptyFrame, EmptyFrame)
        ELSE IF filter_zero /\ FilterRaises(avg1, data_source) THEN Raised
        ELSE Returned(avg2, std1)

(***************************************************************************)
(* The state machine: the files change, the cache is synchronised, the     *)
(* orchestrator is queried.  lastOp and prevOp are history variables: the  *)
(* last two operations that changed the files or the cache.                *)
(***************************************************************************)

DataSources == {"picarro", "pico"}

SyncWindows == {"1min", "5min"}

AggMethods == {"mean", "median"}

QueryWindows == {NoWindow, "30S", "1min", "5min"}

Timezones == {"UTC", "Asia/Shanghai"}

\* The UTC ticks a query bound is drawn from.
QueryTicks == {0, 2, 7}

Op(kind, f, w, m) == [kind |-> kind, f |-> f, w |-> w, m |-> m]

\* What setup_sidebar returns: None, or the configuration dictionary, taken
\* by its keys and its time range.
ConfigNone == [none |-> TRUE, keys |-> {}, start_datetime |-> 0, end_datetime |-> 0]

ConfigKeys(data_source) ==
    {"data_source", "data_root_path", "start_datetime", "end_datetime",
     "filter_non_positive", "selected_timezone", "selected_time_window_key",
     "selected_time_window", "selected_agg_method", "co2_range", "ch4_range",
     "h2o_range"} \cup (IF data_source = "pico" THEN {"c2h6_range"} ELSE {})

\* The calls that touch the file system or the database, by what they are.
ExistsCheck == "os.path.exists"

DirectoryScan == "directory scan"

CacheQuery == "cache query"

\* scan_available_dates_picarro lists the directories of the data root,
\* scan_available_dates_pico globs it.
scan_available_dates(data_source) == <<DirectoryScan>>

\* setup_sidebar(): the input and output it performs, and its return value.
setup_sidebar(data_source, root_exists, start_datetime, end_datetime) ==
    LET scanned == <<ExistsCheck>>
                     \o (IF root_exists THEN scan_available_dates(data_source) ELSE <<>>)
    IN  [io     |-> scanned,
         config |-> IF start_datetime > end_datetime THEN ConfigNone
                    ELSE [none |-> FALSE, keys |-> ConfigKeys(data_source),
                          start_datetime |-> start_datetime,
                          end_datetime |-> end_datetime]]

\* The keys main() reads from the configuration before it loads the data.
LoadKwargsKeys(data_source) ==
    {"data_source", "start_datetime", "end_datetime", "selected_timezone",
     "selected_time_window", "selected_agg_method", "filter_zero_values"}
      \cup (IF data_source = "picarro" THEN {"picarro_concentration_type"} ELSE {})

\* main(): one run of the page up to the loading of the data.
main(data_source, root_exists, start_datetime, end_datetime) ==
    LET side == setup_sidebar(data_source, root_exists, start_datetime, end_datetime)
    IN  IF side.config.none
        THEN [io |-> side.io, config |-> side.config, raised |-> FALSE]
        ELSE IF ~(LoadKwargsKeys(data_source) \subseteq side.config.keys)
        THEN [io |-> side.io, config |-> side.config, raised |-> TRUE]
        ELSE [io |-> side.io \o <<CacheQuery>>, config |-> side.config, raised |-> FALSE]

NoPage ==
    [ran |-> FALSE, data_source |-> "", start |-> 0, end |-> 0,
     io |-> <<>>, config |-> ConfigNone, raised |-> FALSE]

\* No sync pass is running.  A running pass holds the files it has still to
\* process, its window and method, the table it found and the table it will
\* leave.
NoPass ==
    [active |-> FALSE, files |-> <<>>, w |-> "", m |-> "", old |-> <<>>, target |-> <<>>]

\* No instant has been converted.
NoClock == [done |-> FALSE, zone |-> "UTC", wall |-> 0, utc |-> 0, back |-> 0]

(***************************************************************************)
(* The file parsers, line by line.  A line is the sequence of its          *)
(* whitespace-separated tokens (line.split()), so an empty or blank line   *)
(* is <<>>.  A value that is not a time is NaT, which lies before every    *)
(* tick.                                                                   *)
(***************************************************************************)
NaT == 0 - 1

\* pd.to_datetime(DATE + ' ' + TIME.split('.')[0], format='%Y-%m-%d
\* %H:%M:%S', errors='coerce'), in ticks of the day 2024-01-01.
TimeOfDay == [t \in {"00:00:00", "00:00:30.5", "00:01:00"} |->
                CASE t = "00:00:00" -> 0 [] t = "00:00:30.5" -> 1 [] t = "00:01:00" -> 2]

to_datetime(date, time) ==
    IF date = "2024-01-01" /\ time \in DOMAIN TimeOfDay THEN TimeOfDay[time] ELSE NaT

\* line.strip().startswith('DATE')
StartsWithMarker(line) == line # <<>> /\ line[1] = "DATE"

\* The index of the header line, 0 when there is none.
HeaderIndex(lines) ==
    IF \E i \in 1..Len(lines) : StartsWithMarker(lines[i])
    THEN SetMin({i \in 1..Len(lines) : StartsWithMarker(lines[i])})
    ELSE 0

\* The data lines kept when only the lines with exactly as many tokens as
\* the header are taken.
AcceptedLinesExact(lines, headers) ==
    SelectSeq(SubSeq(lines, HeaderIndex(lines) + 1, Len(lines)),
              LAMBDA line : line # <<>> /\ Len(line) = Len(headers))

\* for line in lines[data_start:]: if line: if len(parts) >= len(headers)
AcceptedLines(lines, headers) ==
    SelectSeq(SubSeq(lines, HeaderIndex(lines) + 1, Len(lines)),
              LAMBDA line : line # <<>> /\ Len(line) >= Len(headers))

\* The position of a column in the header.
ColumnIndex(headers, col) == CHOOSE i \in 1..Len(headers) : headers[i] = col

\* No table (None).
NoTable == [none |-> TRUE, headers |-> <<>>, rows |-> <<>>, zone |-> "", DATETIME |-> <<>>]

\* The Format A parser: the table of the accepted lines cut to the header's
\* length, with a DATETIME column when the header has DATE and TIME; the
\* column is marked with the zone given, or left without a zone.
parse_dat_lines(lines, zone) ==
    LET h        == HeaderIndex(lines)
        headers  == lines[h]
        data     == AcceptedLines(lines, headers)
        rows     == [i \in 1..Len(data) |-> SubSeq(data[i], 1, Len(headers))]
        stamped  == "DATE" \in Range(headers) /\ "TIME" \in Range(headers)
    IN  IF h = 0 THEN NoTable
        ELSE IF data = <<>> THEN NoTable
        ELSE [none     |-> FALSE,
              headers  |-> headers,
              rows     |-> rows,
              zone     |-> IF stamped THEN zone ELSE "",
              DATETIME |-> IF stamped
                           THEN [i \in 1..Len(rows) |->
                                   to_datetime(rows[i][ColumnIndex(headers, "DATE")],
                                               rows[i][ColumnIndex(headers, "TIME")])]
                           ELSE <<>>]

\* DataLoader._load_picarro_file: tz_localize('UTC')
load_picarro_lines(lines) == parse_dat_lines(lines, "UTC")

\* load_data_file of gas_monitor_app.py: the DATETIME column is not localized.
load_data_file(lines) == parse_dat_lines(lines, "naive")

\* DataLoader._load_pico_file on a CSV file given by whether it has the
\* 'Time Stamp' column and by the readings of that column: the readings are
\* localized to Asia/Shanghai and converted to UTC.
load_pico_file(csv) ==
    [none     |-> FALSE,
     headers  |-> IF csv.stamped THEN <<"DATETIME", "CH4">> ELSE <<"CH4">>,
     rows     |-> [i \in 1..Len(csv.stamps) |-> <<"4">>],
     zone     |-> IF csv.stamped THEN "UTC" ELSE "",
     DATETIME |-> IF csv.stamped
                  THEN [i \in 1..Len(csv.stamps) |->
                          IF csv.stamps[i] = NaT THEN NaT
                          ELSE localize_to_utc("Asia/Shanghai", csv.stamps[i])]
                  ELSE <<>>]

NoCsv == [stamped |-> FALSE, stamps |-> <<>>]

\* No file has been parsed.
NoParse == [done |-> FALSE, parser |-> "", lines |-> <<>>, csv |-> NoCsv, out |-> NoTable]

(***************************************************************************)
(* File discovery.  A path is the sequence of its components below the     *)
(* data root: <<year, month, day, file>> in the sharded layout, <<file>>   *)
(* in the flat one.  A directory content is a set of paths.                *)
(***************************************************************************)
\* The names of the model in the order of their strings, none a prefix of
\* another, so that paths compare as their components do.
NameOrder ==
    <<"01", "02024", "05", "2024", "Pico1.txt", "Pico1_Eng.txt", "a.dat",
      "backup", "config.txt", "logs", "notes.txt">>

NameRank(name) == CHOOSE i \in 1..Len(NameOrder) : NameOrder[i] = name

\* str.isdigit()
IsDigit(name) == name \in {"01", "02024", "05", "2024"}

\* str(int(item)).zfill(4)
YearFolder(item) == IF item \in {"02024", "2024"} THEN "2024" ELSE item

\* file.endswith('.dat'), and the *.txt of glob
EndsWith(name, suffix) ==
    CASE suffix = ".dat" -> name \in {"a.dat"}
      [] suffix = ".txt" -> name \in {"Pico1.txt", "Pico1_Eng.txt", "config.txt", "notes.txt"}

\* 'Eng.txt' in filename or 'spectralite.txt' in filename or 'config.txt' in filename
HasExcludedName(name) == name \in {"Pico1_Eng.txt", "config.txt"}

\* filename.startswith('Pico')
StartsWithPico(name) == name \in {"Pico1.txt", "Pico1_Eng.txt"}

RECURSIVE PathKey(_)
PathKey(path) ==
    IF path = <<>> THEN 0
    ELSE PathKey(SubSeq(path, 1, Len(path) - 1)) * (Len(NameOrder) + 1)
           + NameRank(path[Len(path)])

\* sorted(data_files) of a collection in which path p occurs count[p] times.
RECURSIVE SortedPaths(_, _)
SortedPaths(paths, count) ==
    IF paths = {} THEN <<>>
    ELSE LET least == CHOOSE p \in paths : \A q \in paths : PathKey(p) <= PathKey(q)
         IN  [i \in 1..count[least] |-> least]
               \o SortedPaths(paths \ {least}, count)

\* DataLoader.get_all_data_files, picarro: every directory of the root with
\* a numeric name gives a year; the folder of each year is walked and its
\* .dat files, at any depth, are collected.
get_all_data_files_picarro(tree) ==
    LET years     == {p[1] : p \in {q \in tree : IsDigit(q[1])}}
        collected == {p \in tree : /\ \E y \in years : YearFolder(y) = p[1]
                                   /\ EndsWith(p[Len(p)], ".dat")}
        count     == [p \in collected |->
                        Cardinality({y \in years : YearFolder(y) = p[1]})]
    IN  SortedPaths(collected, count)

\* DataLoader.get_all_data_files, pico: the .txt files of the root whose
\* name starts with Pico and contains none of the excluded names.
get_all_data_files_pico(tree) ==
    LET filtered == {p \in tree : /\ EndsWith(p[1], ".txt")
                                  /\ ~HasExcludedName(p[1])
                                  /\ StartsWithPico(p[1])}
    IN  SortedPaths(filtered, [p \in filtered |-> 1])

\* get_data_files of gas_monitor_app.py: the .dat files of the day folders
\* whose year, month and day folders have numeric names.
get_data_files(tree) ==
    LET found == {p \in tree : /\ IsDigit(p[1]) /\ IsDigit(p[2]) /\ IsDigit(p[3])
                               /\ EndsWith(p[4], ".dat")}
    IN  SortedPaths(found, [p \in found |-> 1])

\* No directory has been listed.
NoListing == [done |-> FALSE, by |-> "", tree |-> {}, out |-> <<>>]

(***************************************************************************)
(* The uncertainty band of DataPlotter._add_gas_trace.  A row of the       *)
(* plotted table is its value and its dispersion; rows are numbered from   *)
(* 0 as iloc numbers them, and a segment is a pair <<start, end>>, end     *)
(* excluded.                                                               *)
(***************************************************************************)
\* valid_mask = df[gas_col].notna() & df[gas_col + '_std'].notna()
valid_mask(rows) == [i \in 1..Len(rows) |-> ~IsNaN(rows[i].value) /\ ~IsNaN(rows[i].std)]

\* The loop over range(len(valid_mask)) from row i on: st holds start_idx
\* and segments, with start_idx = -1 for None.
RECURSIVE ScanSegments(_, _, _)
ScanSegments(mask, i, st) ==
    IF i >= Len(mask) THEN st
    ELSE ScanSegments(mask, i + 1,
           IF mask[i + 1] /\ st.start_idx = 0 - 1
           THEN [st EXCEPT !.start_idx = i]
           ELSE IF ~mask[i + 1] /\ st.start_idx # 0 - 1
           THEN [start_idx |-> 0 - 1,
                 segments  |-> Append(st.segments, <<st.start_idx, i>>)]
           ELSE st)

\* The segments when the run still open after the loop is not closed.
BandSegmentsWithoutLast(mask) ==
    ScanSegments(mask, 0, [start_idx |-> 0 - 1, segments |-> <<>>]).segments

\* The segments _add_gas_trace finds: those of the loop, and the run still
\* open after it.
BandSegments(mask) ==
    LET st == ScanSegments(mask, 0, [start_idx |-> 0 - 1, segments |-> <<>>])
    IN  IF st.start_idx # 0 - 1
        THEN Append(st.segments, <<st.start_idx, Len(mask)>>)
        ELSE st.segments

\* The two traces of one segment: the lower bound, then the upper bound
\* with the fill and the legend entry.
BandTraces(seg) ==
    << [name |-> "", from |-> seg[1], to |-> seg[2], showlegend |-> FALSE],
       [name |-> "band", from |-> seg[1], to |-> seg[2], showlegend |-> (seg[1] = 0)] >>

RECURSIVE AllBandTraces(_)
AllBandTraces(segments) ==
    IF segments = <<>> THEN <<>>
    ELSE BandTraces(Head(segments)) \o AllBandTraces(Tail(segments))

\* _add_gas_trace(fig, df, gas_col, color, row, time_window) on a table
\* with the column gas_col + '_std': the traces it adds; raw says that
\* time_window is the key of the unaveraged option.
add_gas_trace(rows, raw) ==
    IF \A i \in 1..Len(rows) : IsNaN(rows[i].value) THEN <<>>
    ELSE << [name |-> "main", from |-> 0, to |-> Len(rows), showlegend |-> TRUE] >>
           \o (IF raw THEN <<>> ELSE AllBandTraces(BandSegments(valid_mask(rows))))

\* Nothing has been plotted.
NoPlot == [done |-> FALSE, rows |-> <<>>, raw |-> FALSE, traces |-> <<>>]

NoQuery ==
    [start |-> 0, end |-> 0, tz |-> "", time_window |-> "", agg_method |-> "",
     filter_zero |-> FALSE]

NoResult == [asked |-> FALSE, q |-> NoQuery, out |-> Returned(EmptyFrame, EmptyFrame)]

\* The number of file changes and of sync passes of one behaviour.
MaxWrites == 1

MaxSyncs == 2

FileStates ==
    {NoFile} \cup [present : {TRUE}, content : Contents, mtime : Mtimes]

\* The data root holds any files, none modified later than another; the
\* database is new.
InitWith(b) ==
    /\ disk \in [Paths -> {s \in FileStates : s.present => s.mtime = MaxMtime}]
    /\ file_records = [f \in Paths |-> NoRecord]
    /\ processed = <<>>
    /\ result = NoResult
    /\ lastOp = Op("init", "", "", "")
    /\ prevOp = Op("init", "", "", "")
    /\ aggIn = EmptyFrame
    /\ budget = b
    /\ plot = NoPlot
    /\ listing = NoListing
    /\ parse = NoParse
    /\ clock = NoClock
    /\ inflight = NoPass
    /\ unreadable = {}
    /\ page = NoPage

Init == InitWith([writes |-> MaxWrites, syncs |-> MaxSyncs])

\* A data file is created or rewritten, or its modification time is set.
WriteFile(f, c, t) ==
    /\ budget.writes > 0
    /\ disk[f] # [present |-> TRUE, content |-> c, mtime |-> t]
    /\ disk' = [disk EXCEPT ![f] = [present |-> TRUE, content |-> c, mtime |-> t]]
    /\ budget' = [budget EXCEPT !.writes = @ - 1]
    /\ lastOp' = Op("write", f, "", "")
    /\ prevOp' = lastOp
    /\ result' = NoResult
    /\ UNCHANGED <<file_records, processed, aggIn, page, unreadable, inflight, clock, parse, listing, plot>>

\* DataLoader.sync_database(time_window, agg_method)
SyncDatabase(time_window, agg_method) ==
    /\ budget.syncs > 0
    /\ processed' = SyncResult(time_window, agg_method).table
    /\ file_records' = SyncResult(time_window, agg_method).records
    /\ budget' = [budget EXCEPT !.syncs = @ - 1]
    /\ lastOp' = Op("sync", "", time_window, agg_method)
    /\ prevOp' = lastOp
    /\ result' = NoResult
    /\ UNCHANGED <<disk, aggIn, page, unreadable, inflight, clock, parse, listing, plot>>

\* load_and_process_data(...) of app.py on the picarro source, for a range
\* whose start lies before its end.
Query(start, end, tz, time_window, agg_method, filter_zero) ==
    /\ ~result.asked
    /\ start < end
    /\ result' = [asked |-> TRUE,
                  q     |-> [start |-> start, end |-> end, tz |-> tz,
                             time_window |-> time_window, agg_method |-> agg_method,
                             filter_zero |-> filter_zero],
                  out   |-> load_and_process_data("picarro", start, end, tz,
                                                  time_window, agg_method, filter_zero)]
    /\ UNCHANGED <<disk, file_records, processed, lastOp, prevOp, aggIn, budget, page, unreadable, inflight, clock, parse, listing, plot>>

Next ==
    \/ \E f \in Paths, c \in Contents, t \in Mtimes : WriteFile(f, c, t)
    \/ \E w \in SyncWindows, m \in AggMethods : SyncDatabase(w, m)

Spec == Init /\ [][Next]_vars

\* The read path over the caches that sync passes build.
MaxQuerySyncs == 1

InitQuery == InitWith([writes |-> 0, syncs |-> MaxQuerySyncs])

NextQuery ==
    \/ \E w \in SyncWindows, m \in AggMethods : SyncDatabase(w, m)
    \/ \E tz \in Timezones, w \in QueryWindows, m \in AggMethods, z \in BOOLEAN :
         \E a \in QueryTicks, b \in QueryTicks :
            Query(a + TimezoneOffset(tz), b + TimezoneOffset(tz), tz, w, m, z)

SpecQuery == InitQuery /\ [][NextQuery]_vars

\* One run of the page (app.py main) over a data root: the user picks the
\* source and the time range in the sidebar.  The data root of the picarro
\* source exists when it holds a file.
Main(data_source, root_exists, start, end) ==
    /\ ~page.ran
    /\ (data_source = "picarro" /\ \E f \in Paths : disk[f].present) => root_exists
    /\ page' = [ran |-> TRUE, data_source |-> data_source, start |-> start, end |-> end,
                io     |-> main(data_source, root_exists, start, end).io,
                config |-> main(data_source, root_exists, start, end).config,
                raised |-> main(data_source, root_exists, start, end).raised]
    /\ UNCHANGED <<disk, file_records, processed, result, lastOp, prevOp, aggIn, budget, unreadable, inflight, clock, parse, listing, plot>>

InitSidebar == InitWith([writes |-> 0, syncs |-> 0])

NextSidebar ==
    \E data_source \in DataSources, root_exists \in BOOLEAN :
       \E start \in QueryTicks, end \in QueryTicks :
          Main(data_source, root_exists, start, end)

SpecSidebar == InitSidebar /\ [][NextSidebar]_vars

\* A data file becomes one that open() refuses (its permissions change, or
\* the instrument holds it locked).
MakeUnreadable(f) ==
    /\ budget.writes > 0
    /\ disk[f].present
    /\ f \notin unreadable
    /\ unreadable' = unreadable \cup {f}
    /\ budget' = [budget EXCEPT !.writes = @ - 1]
    /\ lastOp' = Op("unreadable", f, "", "")
    /\ prevOp' = lastOp
    /\ result' = NoResult
    /\ UNCHANGED <<disk, file_records, processed, aggIn, page, inflight, clock, parse, listing, plot>>

\* Sync passes over a data root in which a file may turn unreadable.
MaxBadFiles == 1

InitBadFile == InitWith([writes |-> MaxBadFiles, syncs |-> MaxSyncs])

NextBadFile ==
    \/ \E f \in Paths : MakeUnreadable(f)
    \/ \E w \in SyncWindows, m \in AggMethods : SyncDatabase(w, m)

SpecBadFile == InitBadFile /\ [][NextBadFile]_vars

\* DataLoader.sync_database up to the end of its first database write: the
\* files are listed, hashed and marked, and the stored rows are deleted in a
\* transaction of their own.
BeginSync(time_window, agg_method) ==
    /\ budget.syncs > 0
    /\ ~inflight.active
    /\ budget' = [budget EXCEPT !.syncs = @ - 1]
    /\ lastOp' = Op("sync", "", time_window, agg_method)
    /\ prevOp' = lastOp
    /\ result' = NoResult
    /\ IF HashRaises
       THEN UNCHANGED <<processed, inflight>>
       ELSE /\ processed' = delete_old_processed_data_by_time_window(
                                processed, time_window, agg_method)
            /\ inflight' = [active |-> TRUE, files |-> FilesToProcess,
                            w |-> time_window, m |-> agg_method,
                            old |-> processed,
                            target |-> SyncResult(time_window, agg_method).table]
    /\ UNCHANGED <<disk, file_records, aggIn, page, unreadable, clock, parse, listing, plot>>

\* One turn of the processing loop of sync_database: the next marked file
\* is parsed and aggregated, its rows are appended and its record written,
\* each in a transaction of its own.
SyncFile ==
    /\ inflight.active
    /\ inflight.files # <<>>
    /\ processed' = ProcessFile([table |-> processed, records |-> file_records],
                                Head(inflight.files), inflight.w, inflight.m).table
    /\ file_records' = ProcessFile([table |-> processed, records |-> file_records],
                                   Head(inflight.files), inflight.w, inflight.m).records
    /\ inflight' = [inflight EXCEPT !.files = Tail(@)]
    /\ result' = NoResult
    /\ UNCHANGED <<disk, lastOp, prevOp, aggIn, budget, page, unreadable, clock, parse, listing, plot>>

\* sync_database returns.
EndSync ==
    /\ inflight.active
    /\ inflight.files = <<>>
    /\ inflight' = NoPass
    /\ result' = NoResult
    /\ UNCHANGED <<disk, file_records, processed, lastOp, prevOp, aggIn, budget, page, unreadable, clock, parse, listing, plot>>

\* A data file changes while no pass is running.
WriteFileBetweenPasses(f, c, t) ==
    /\ ~inflight.active
    /\ WriteFile(f, c, t)

\* Sync passes taken one database transaction at a time, with the queries
\* of another session of the page in between.
InitInterleaved == InitWith([writes |-> MaxWrites, syncs |-> MaxSyncs])

NextInterleaved ==
    \/ \E f \in Paths, c \in Contents, t \in Mtimes : WriteFileBetweenPasses(f, c, t)
    \/ \E m \in AggMethods : BeginSync("1min", m)
    \/ SyncFile
    \/ EndSync
    \/ \E m \in AggMethods :
         Query(SetMin(QueryTicks), SetMax(QueryTicks), "UTC", "1min", m, FALSE)

SpecInterleaved == InitInterleaved /\ [][NextInterleaved]_vars

\* The conversions of load_processed_data on the wall-clock instants around
\* the changes of offset, up to MaxHalfHours half hours before and after.
MaxHalfHours == 3

\* The wall-clock readings at which an offset changes: 02:00 of 2024-03-10
\* and of 2024-11-03 in New York, 01:00 of 2024-03-31 and 02:00 of
\* 2024-10-27 in London.
ChangeReadings == {57001200, 57686640, 57061560, 57666480}

WallInstants ==
    {b + k * HalfHour : b \in ChangeReadings, k \in (0 - MaxHalfHours)..MaxHalfHours}

InitZone ==
    /\ disk = [f \in Paths |-> NoFile]
    /\ file_records = [f \in Paths |-> NoRecord]
    /\ processed = <<>>
    /\ result = NoResult
    /\ lastOp = Op("init", "", "", "")
    /\ prevOp = Op("init", "", "", "")
    /\ aggIn = EmptyFrame
    /\ budget = [writes |-> 0, syncs |-> 0]
    /\ plot = NoPlot
    /\ listing = NoListing
    /\ parse = NoParse
    /\ page = NoPage
    /\ unreadable = {}
    /\ inflight = NoPass
    /\ clock \in [done : {FALSE}, zone : Zones, wall : WallInstants, utc : {0}, back : {0}]

\* A wall-clock instant of the sidebar is localized and converted to UTC,
\* and a row stamped with that UTC instant is shown in the zone.
ConvertAndShow ==
    /\ ~clock.done
    /\ clock' = [clock EXCEPT !.done = TRUE,
                              !.utc  = localize_to_utc(clock.zone, clock.wall),
                              !.back = tz_convert(clock.zone,
                                                  localize_to_utc(clock.zone, clock.wall))]
    /\ UNCHANGED <<disk, file_records, processed, result, lastOp, prevOp, aggIn, budget, page, unreadable, inflight, parse, listing, plot>>

NextZone == ConvertAndShow

SpecZone == InitZone /\ [][NextZone]_vars

\* The parsers on files of up to MaxLines lines.
MaxLines == 3

\* The lines of a .dat file: blank, preamble, a header with and one
\* without TIME, and data lines of three, four and two tokens.
DatLines ==
    { <<>>, <<"Picarro">>,
      <<"DATE", "TIME", "CH4_dry">>, <<"DATE", "CH4_dry">>,
      <<"2024-01-01", "00:00:30.5", "4">>,
      <<"2024-01-01", "00:01:00", "x", "extra">>,
      <<"2024-01-01", "bad">> }

DatFiles == UNION {[1..n -> DatLines] : n \in 0..MaxLines}

\* The readings of the 'Time Stamp' column of a .txt file: 08:00:00 and
\* 08:00:30 of the first day of the epoch, and one that is not a time.
PicoStamps == {960, 961, NaT}

CsvFiles ==
    [stamped : BOOLEAN, stamps : UNION {[1..n -> PicoStamps] : n \in 1..MaxLines}]

InitParse ==
    /\ disk = [f \in Paths |-> NoFile]
    /\ file_records = [f \in Paths |-> NoRecord]
    /\ processed = <<>>
    /\ result = NoResult
    /\ lastOp = Op("init", "", "", "")
    /\ prevOp = Op("init", "", "", "")
    /\ aggIn = EmptyFrame
    /\ budget = [writes |-> 0, syncs |-> 0]
    /\ plot = NoPlot
    /\ listing = NoListing
    /\ page = NoPage
    /\ unreadable = {}
    /\ inflight = NoPass
    /\ clock = NoClock
    /\ parse \in {[NoParse EXCEPT !.lines = l] : l \in DatFiles}
                   \cup {[NoParse EXCEPT !.csv = c] : c \in CsvFiles}

\* DataLoader._load_picarro_file(file_path)
LoadPicarroFile ==
    /\ ~parse.done
    /\ parse.csv = NoCsv
    /\ parse' = [parse EXCEPT !.done = TRUE, !.parser = "_load_picarro_file",
                              !.out = load_picarro_lines(parse.lines)]
    /\ UNCHANGED <<disk, file_records, processed, result, lastOp, prevOp, aggIn, budget, page, unreadable, inflight, clock, listing, plot>>

\* load_data_file(file_path) of gas_monitor_app.py
LoadDataFile ==
    /\ ~parse.done
    /\ parse.csv = NoCsv
    /\ parse' = [parse EXCEPT !.done = TRUE, !.parser = "load_data_file",
                              !.out = load_data_file(parse.lines)]
    /\ UNCHANGED <<disk, file_records, processed, result, lastOp, prevOp, aggIn, budget, page, unreadable, inflight, clock, listing, plot>>

\* DataLoader._load_pico_file(file_path)
LoadPicoFile ==
    /\ ~parse.done
    /\ parse.csv # NoCsv
    /\ parse' = [parse EXCEPT !.done = TRUE, !.parser = "_load_pico_file",
                              !.out = load_pico_file(parse.csv)]
    /\ UNCHANGED <<disk, file_records, processed, result, lastOp, prevOp, aggIn, budget, page, unreadable, inflight, clock, listing, plot>>

NextParse == LoadPicarroFile \/ LoadDataFile \/ LoadPicoFile

SpecParse == InitParse /\ [][NextParse]_vars

\* File discovery on data roots of up to MaxFiles files.
MaxFiles == 2

ShardedPaths ==
    {<<y, "01", d, f>> : y \in {"2024", "02024", "logs"}, d \in {"05", "backup"},
                         f \in {"a.dat", "notes.txt"}}

FlatPaths == {<<f>> : f \in {"Pico1.txt", "Pico1_Eng.txt", "config.txt", "notes.txt"}}

UpTo(paths, n) == {t \in SUBSET paths : Cardinality(t) <= n}

InitDiscovery ==
    /\ disk = [f \in Paths |-> NoFile]
    /\ file_records = [f \in Paths |-> NoRecord]
    /\ processed = <<>>
    /\ result = NoResult
    /\ lastOp = Op("init", "", "", "")
    /\ prevOp = Op("init", "", "", "")
    /\ aggIn = EmptyFrame
    /\ budget = [writes |-> 0, syncs |-> 0]
    /\ plot = NoPlot
    /\ page = NoPage
    /\ unreadable = {}
    /\ inflight = NoPass
    /\ clock = NoClock
    /\ parse = NoParse
    /\ listing \in {[NoListing EXCEPT !.by = l, !.tree = t] :
                      l \in {"sharded"}, t \in UpTo(ShardedPaths, MaxFiles)}
                   \cup {[NoListing EXCEPT !.by = l, !.tree = t] :
                           l \in {"flat"}, t \in UpTo(FlatPaths, MaxFiles)}

\* DataLoader('picarro').get_all_data_files()
GetAllDataFilesPicarro ==
    /\ ~listing.done /\ listing.by = "sharded"
    /\ listing' = [listing EXCEPT !.done = TRUE, !.by = "get_all_data_files picarro",
                                  !.out = get_all_data_files_picarro(listing.tree)]
    /\ UNCHANGED <<disk, file_records, processed, result, lastOp, prevOp, aggIn, budget, page, unreadable, inflight, clock, parse, plot>>

\* DataLoader('pico').get_all_data_files()
GetAllDataFilesPico ==
    /\ ~listing.done /\ listing.by = "flat"
    /\ listing' = [listing EXCEPT !.done = TRUE, !.by = "get_all_data_files pico",
                                  !.out = get_all_data_files_pico(listing.tree)]
    /\ UNCHANGED <<disk, file_records, processed, result, lastOp, prevOp, aggIn, budget, page, unreadable, inflight, clock, parse, plot>>

\* get_data_files(base_path) of gas_monitor_app.py
GetDataFiles ==
    /\ ~listing.done /\ listing.by = "sharded"
    /\ listing' = [listing EXCEPT !.done = TRUE, !.by = "get_data_files",
                                  !.out = get_data_files(listing.tree)]
    /\ UNCHANGED <<disk, file_records, processed, result, lastOp, prevOp, aggIn, budget, page, unreadable, inflight, clock, parse, plot>>

NextDiscovery == GetAllDataFilesPicarro \/ GetAllDataFilesPico \/ GetDataFiles

SpecDiscovery == InitDiscovery /\ [][NextDiscovery]_vars

\* The band on tables of up to MaxRows rows, each with a value and a
\* dispersion of which either may be missing.
MaxRows == 4

PlotRows == [value : {Rat(2), NaN}, std : {Rat(0), NaN}]

InitPlot ==
    /\ disk = [f \in Paths |-> NoFile]
    /\ file_records = [f \in Paths |-> NoRecord]
    /\ processed = <<>>
    /\ result = NoResult
    /\ lastOp = Op("init", "", "", "")
    /\ prevOp = Op("init", "", "", "")
    /\ aggIn = EmptyFrame
    /\ budget = [writes |-> 0, syncs |-> 0]
    /\ page = NoPage
    /\ unreadable = {}
    /\ inflight = NoPass
    /\ clock = NoClock
    /\ parse = NoParse
    /\ listing = NoListing
    /\ plot \in [done : {FALSE}, raw : BOOLEAN, traces : {<<>>},
                 rows : UNION {[1..n -> PlotRows] : n \in 0..MaxRows}]

\* DataPlotter._add_gas_trace on the table
AddGasTrace ==
    /\ ~plot.done
    /\ plot' = [plot EXCEPT !.done = TRUE, !.traces = add_gas_trace(plot.rows, plot.raw)]
    /\ UNCHANGED <<disk, file_records, processed, result, lastOp, prevOp, aggIn, budget, page, unreadable, inflight, clock, parse, listing>>

NextPlot == AddGasTrace

SpecPlot == InitPlot /\ [][NextPlot]_vars

(***************************************************************************)
(* The aggregation engine alone, on tables of one numeric channel.         *)
(***************************************************************************)
\* The largest number of rows and the largest timestamp of an input table.
MaxAggLen == 2

MaxAggTime == 4

AggCells == {Rat(0), Rat(2), NaN}

AggRows == [DATETIME : 0..MaxAggTime, CH4_dry : AggCells]

RECURSIVE SeqsUpTo(_, _)
SeqsUpTo(S, n) ==
    IF n = 0 THEN {<<>>}
    ELSE LET shorter == SeqsUpTo(S, n - 1)
         IN  shorter \cup {Append(q, x) : q \in {r \in shorter : Len(r) = n - 1}, x \in S}

\* Samples 10, 20, 30 at 00:00:10, 00:00:40 and 00:01:20, by the tick each
\* falls in.
ExampleTable ==
    [cols |-> {"DATETIME", "CH4_dry"},
     rows |-> <<[DATETIME |-> 0, CH4_dry |-> Rat(10)],
                [DATETIME |-> 1, CH4_dry |-> Rat(20)],
                [DATETIME |-> 2, CH4_dry |-> Rat(30)]>>]

AggTables ==
    {[cols |-> IF rows = <<>> THEN {} ELSE {"DATETIME", "CH4_dry"}, rows |-> rows] :
        rows \in SeqsUpTo(AggRows, MaxAggLen)} \cup {ExampleTable}

InitAgg ==
    /\ disk = [f \in Paths |-> NoFile]
    /\ file_records = [f \in Paths |-> NoRecord]
    /\ processed = <<>>
    /\ result = NoResult
    /\ lastOp = Op("init", "", "", "")
    /\ prevOp = Op("init", "", "", "")
    /\ aggIn \in AggTables
    /\ budget = [writes |-> 0, syncs |-> 0]
    /\ plot = NoPlot
    /\ listing = NoListing
    /\ parse = NoParse
    /\ clock = NoClock
    /\ inflight = NoPass
    /\ unreadable = {}
    /\ page = NoPage

\* The outcome of one call of the engine, kept in result.
AggResult(pair, time_window, agg_method) ==
    [asked |-> TRUE,
     q     |-> [NoQuery EXCEPT !.time_window = time_window, !.agg_method = agg_method],
     out   |-> Returned(pair[1], pair[2])]

\* DataResampler.resample_data_with_uncertainty(aggIn, time_window,
\* agg_method, time_col='DATETIME')
ResampleWithUncertainty(time_window, agg_method) ==
    /\ ~result.asked
    /\ result' = AggResult(resample_data_with_uncertainty(aggIn, time_window,
                                                          agg_method, "DATETIME"),
                           time_window, agg_method)
    /\ lastOp' = Op("resample_data_with_uncertainty", "", time_window, agg_method)
    /\ prevOp' = lastOp
    /\ UNCHANGED <<disk, file_records, processed, aggIn, budget, page, unreadable, inflight, clock, parse, listing, plot>>

\* DataLoader._process_file_data_with_std(aggIn, time_window, agg_method)
ProcessFileData(time_window, agg_method) ==
    /\ ~result.asked
    /\ result' = AggResult(process_file_data_with_std(aggIn, time_window, agg_method),
                           time_window, agg_method)
    /\ lastOp' = Op("process_file_data_with_std", "", time_window, agg_method)
    /\ prevOp' = lastOp
    /\ UNCHANGED <<disk, file_records, processed, aggIn, budget, page, unreadable, inflight, clock, parse, listing, plot>>

\* DataLoader._resample_data_with_std(aggIn, time_window, agg_method)
ResampleCached(time_window, agg_method) ==
    /\ ~result.asked
    /\ result' = AggResult(resample_data_with_std(aggIn, time_window, agg_method),
                           time_window, agg_method)
    /\ lastOp' = Op("resample_data_with_std", "", time_window, agg_method)
    /\ prevOp' = lastOp
    /\ UNCHANGED <<disk, file_records, processed, aggIn, budget, page, unreadable, inflight, clock, parse, listing, plot>>
\* DataResampler.filter_zero_values(aggIn, data_source); the data source is
\* kept in the f field of lastOp.
FilterZero(data_source) ==
    /\ ~result.asked
    /\ result' = [asked |-> TRUE,
                  q     |-> [NoQuery EXCEPT !.filter_zero = TRUE],
                  out   |-> IF FilterRaises(aggIn, data_source) THEN Raised
                            ELSE Returned(filter_zero_values(aggIn, data_source),
                                          EmptyFrame)]
    /\ lastOp' = Op("filter_zero_values", data_source, "", "")
    /\ prevOp' = lastOp
    /\ UNCHANGED <<disk, file_records, processed, aggIn, budget, page, unreadable, inflight, clock, parse, listing, plot>>

NextAgg ==
    \/ \E w \in QueryWindows, m \in AggMethods : ResampleWithUncertainty(w, m)
    \/ \E w \in QueryWindows \ {NoWindow}, m \in AggMethods : ProcessFileData(w, m)
    \/ \E w \in QueryWindows \ {NoWindow}, m \in AggMethods : ResampleCached(w, m)
    \/ \E ds \in DataSources : FilterZero(ds)

SpecAgg == InitAgg /\ [][NextAgg]_vars

(***************************************************************************)
(* Properties of the sync pass.                                            *)
(***************************************************************************)
\* The step is a sync pass.
SyncStep == budget'.syncs < budget.syncs

\* The stored rows computed from file f, in insertion order.
RowsOfFile(table, f) == SelectSeq(table, LAMBDA r : r.source_file_name = f)

\* The stored rows of one (file, window, method) key.
RowsOfKey(table, f, w, m) ==
    SelectSeq(table, LAMBDA r : /\ r.source_file_name = f
                                /\ r.time_window = w
                                /\ r.agg_method = m)

\* The content of file f parses to samples.
Parses(f) == disk[f].present /\ load_picarro_file(disk[f].content).ok

\* The rows a (window, method) aggregation of the present content of f gives.
FreshRows(f, w, m) ==
    LET agg == process_file_data_with_std(load_picarro_file(disk[f].content).df, w, m)
    IN  insert_processed_data_to_db(<<>>, agg[1], agg[2], w, m, f)

RecordOf(f) ==
    [present |-> TRUE, hash |-> calculate_file_hash(f), modified |-> getmtime(f)]

\* The sync step has reprocessed file f: its record is written anew and rows
\* of the pass's window and method are stored for it.
ReprocessedBy(f) ==
    /\ file_records'[f] = RecordOf(f)
    /\ RowsOfKey(processed', f, lastOp'.w, lastOp'.m) # <<>>

\* The sync step has skipped file f: its record stays and no row is added.
SkippedBy(f) ==
    /\ file_records'[f] = file_records[f]
    /\ Len(RowsOfFile(processed', f)) <= Len(RowsOfFile(processed, f))

DistinctBuckets(rows) ==
    \A i, j \in 1..Len(rows) : rows[i]["DATETIME"] = rows[j]["DATETIME"] => i = j

C6_OnlyOneMinuteRows ==
    \A i \in 1..Len(processed) : processed[i].time_window = "1min"

(***************************************************************************)
(* Properties of the aggregation engine and of the read path.              *)
(***************************************************************************)
\* The values of column col grow strictly along the rows.
StrictlyIncreasing(rows, col) ==
    \A i \in 1..(Len(rows) - 1) : rows[i][col] < rows[i + 1][col]

\* C7: the timestamps a query returns are unique and strictly increasing,
\* also when two files hold samples of the same 1-minute bucket.
C7_QueryTimestampsIncrease ==
    (result.asked /\ lastOp.kind = "sync" /\ ~result.out.raised
       /\ ~IsEmpty(result.out.avg))
      => StrictlyIncreasing(result.out.avg.rows, "DATETIME")

\* The raw samples of the parseable files on disk, file after file.
RECURSIVE SamplesOf(_)
SamplesOf(files) ==
    IF files = <<>> THEN <<>>
    ELSE (IF Parses(Head(files)) THEN load_picarro_file(disk[Head(files)].content).df.rows
          ELSE <<>>) \o SamplesOf(Tail(files))

RawSamples == SamplesOf(get_all_data_files)

\* The largest timestamp of a catalogued sample.
LastSampleTick ==
    SetMax(UNION {Range(Column(Catalogue[c].samples, "DATETIME")) : c \in Contents})

\* The query asks a window coarser than one minute over the whole data, on a
\* cache one 1-minute pass of the queried method has just built.
CoarseQueryOverAll ==
    /\ result.asked /\ ~result.out.raised
    /\ result.q.time_window = "5min"
    /\ lastOp = Op("sync", "", "1min", result.q.agg_method)
    /\ LocalToUtc(result.q.start, result.q.tz) = 0
    /\ LocalToUtc(result.q.end, result.q.tz) > LastSampleTick
    /\ ~IsEmpty(result.out.std)

\* C8: for a window coarser than one minute, the dispersion reported for a
\* bucket is the sample standard deviation (here its square) of the raw
\* samples that fall in the bucket.
C8_CoarseStdOverRawSamples ==
    CoarseQueryOverAll =>
      \A i \in 1..Len(result.out.std.rows) :
         LET b  == result.out.std.rows[i]["DATETIME_DISPLAY"].utc
             in == SelectSeq(RawSamples, LAMBDA r :
                       BucketOf(r["DATETIME"], WindowTicks("5min")) = b)
         IN  result.out.std.rows[i]["CH4_dry"] = SeriesStd(Column(in, "CH4_dry"))

\* C9: the central table and the dispersion table of one aggregation hold
\* the same bucket timestamps, each once and in ascending order.
C9_SameBucketsInBothTables ==
    (lastOp.kind \in {"resample_data_with_uncertainty", "process_file_data_with_std"}
       /\ ~IsEmpty(aggIn) /\ lastOp.w # NoWindow)
      => /\ Len(result.out.avg.rows) = Len(result.out.std.rows)
         /\ \A i \in 1..Len(result.out.avg.rows) :
               result.out.avg.rows[i]["DATETIME"] = result.out.std.rows[i]["DATETIME"]
         /\ StrictlyIncreasing(result.out.avg.rows, "DATETIME")
         /\ result.out.avg.rows # <<>>

\* An aggregation has produced three buckets of which the middle one holds
\* no sample.
C9_EmptyBucketBetween ==
    /\ lastOp.kind \in {"resample_data_with_uncertainty", "process_file_data_with_std"}
    /\ Len(result.out.avg.rows) = 3
    /\ Len(result.out.std.rows) = 3
    /\ IsNaN(result.out.avg.rows[2]["CH4_dry"])
    /\ ~IsNaN(result.out.avg.rows[1]["CH4_dry"])

\* C10: the central table and the dispersion table of a query result pair
\* one to one by display timestamp, also when zero rows are filtered out.
C10_ResultTablesPairUp ==
    (result.asked /\ lastOp.kind = "sync" /\ ~result.out.raised)
      => /\ Len(result.out.avg.rows) = Len(result.out.std.rows)
         /\ \A i \in 1..Len(result.out.avg.rows) :
               result.out.avg.rows[i]["DATETIME_DISPLAY"]
                 = result.out.std.rows[i]["DATETIME_DISPLAY"]

\* The sum of the squared distances of the cells from the value mu.
RECURSIVE SumSqDev(_, _)
SumSqDev(xs, mu) ==
    IF xs = <<>> THEN Rat(0)
    ELSE RAdd(RMul(RSub(Head(xs), mu), RSub(Head(xs), mu)), SumSqDev(Tail(xs), mu))

\* The sample variance of the non-missing cells by its definition, the sum
\* of the squared distances from the mean over n - 1; missing below two cells.
SampleVariance(xs) ==
    LET ys == DropNa(xs)
        n  == Len(ys)
    IN  IF n < 2 THEN NaN
        ELSE RDivInt(SumSqDev(ys, RDivInt(RSum(ys), n)), n - 1)

\* An aggregation of a table over a window has run.
AggregationRan ==
    /\ lastOp.kind \in {"resample_data_with_uncertainty", "process_file_data_with_std"}
    /\ ~IsEmpty(aggIn) /\ lastOp.w # NoWindow

\* C11: for either method, the dispersion of every bucket is the sample
\* standard deviation (here its square) of the bucket's non-missing samples,
\* missing below two of them; samples 10, 20, 30 at 00:00:10, 00:00:40 and
\* 00:01:20 give, for one minute and mean, bucket 00:00 with mean 15 and a
\* dispersion and bucket 00:01 with mean 30 and none.
C11_DispersionIsSampleStd ==
    AggregationRan =>
      /\ \A i \in 1..Len(result.out.std.rows) :
            LET b  == result.out.std.rows[i]["DATETIME"]
                W  == WindowTicks(lastOp.w)
                in == SelectSeq(aggIn.rows, LAMBDA r : b <= r["DATETIME"]
                                                      /\ r["DATETIME"] < b + W)
            IN  result.out.std.rows[i]["CH4_dry"] = SampleVariance(Column(in, "CH4_dry"))
      /\ (aggIn = ExampleTable /\ lastOp.w = "1min" /\ lastOp.m = "mean")
           => /\ result.out.avg.rows = <<[DATETIME |-> 0, CH4_dry |-> Rat(15)],
                                         [DATETIME |-> 2, CH4_dry |-> Rat(30)]>>
              /\ result.out.std.rows = <<[DATETIME |-> 0, CH4_dry |-> Rat(50)],
                                         [DATETIME |-> 2, CH4_dry |-> NaN]>>

\* The example table was aggregated by the median over one minute.
C11_ExampleAggregated ==
    /\ AggregationRan
    /\ aggIn = ExampleTable /\ lastOp.w = "1min" /\ lastOp.m = "median"
    /\ Len(result.out.std.rows) = 2
    /\ ~IsNaN(result.out.std.rows[1]["CH4_dry"])
    /\ IsNaN(result.out.std.rows[2]["CH4_dry"])

\* The least whole number of windows W that cover the duration D.
CeilDiv(D, W) == (D + W - 1) \div W

\* C12: aggregating a series that spans duration D with window W returns
\* ceil(D / W) buckets, within one; consecutive bucket timestamps differ by
\* exactly W, and a bucket no sample falls in is emitted with a missing
\* central value.
C12_BucketsComplete ==
    (/\ lastOp.kind \in {"resample_data_with_uncertainty", "process_file_data_with_std",
                         "resample_data_with_std"}
     /\ ~IsEmpty(aggIn) /\ lastOp.w # NoWindow)
      => LET ts   == Range(Column(aggIn.rows, "DATETIME"))
             W    == WindowTicks(lastOp.w)
             rows == result.out.avg.rows
             n    == Len(rows)
             c    == CeilDiv(SetMax(ts) - SetMin(ts), W)
         IN  /\ c - 1 <= n /\ n <= c + 1
             /\ \A i \in 1..(n - 1) : rows[i + 1]["DATETIME"] = rows[i]["DATETIME"] + W
             /\ \A t \in ts : \E i \in 1..n : /\ rows[i]["DATETIME"] <= t
                                              /\ t < rows[i]["DATETIME"] + W
             /\ \A i \in 1..n :
                   (\A t \in ts : ~(rows[i]["DATETIME"] <= t /\ t < rows[i]["DATETIME"] + W))
                     => IsNaN(rows[i]["CH4_dry"])

\* A re-aggregation of cached rows has emitted a bucket no row falls in.
C12_EmptyBucketEmitted ==
    /\ lastOp.kind = "resample_data_with_std"
    /\ Len(result.out.avg.rows) >= 3
    /\ \E i \in 2..(Len(result.out.avg.rows) - 1) :
          \A k \in 1..Len(aggIn.rows) :
             ~(/\ result.out.avg.rows[i]["DATETIME"] <= aggIn.rows[k]["DATETIME"]
               /\ aggIn.rows[k]["DATETIME"]
                    < result.out.avg.rows[i]["DATETIME"] + WindowTicks(lastOp.w))

\* The cached 1-minute rows of the queried range and method.
CachedInRange ==
    query_processed_data_from_db(
        processed,
        BoundText(LocalToUtc(result.q.start, result.q.tz)),
        BoundText(LocalToUtc(result.q.end, result.q.tz)),
        "1min", result.q.agg_method)

\* C13: a query with the null window returns, without raising, a central
\* table with as many rows as the filtered input and an empty dispersion
\* table.
C13_NullWindowPassesThrough ==
    (result.asked /\ result.q.tz \in Timezones /\ result.q.time_window = NoWindow)
      => /\ ~result.out.raised
         /\ IsEmpty(result.out.std)
         /\ Len(result.out.avg.rows)
              = Len((IF result.q.filter_zero
                     THEN filter_zero_values(CachedInRange, "picarro")
                     ELSE CachedInRange).rows)

\* A query with zero-filtering for one minute over the whole data of a data
\* root of one file, on a cache one pass of the queried method has built.
FilteredQueryOverAll ==
    /\ result.asked /\ ~result.out.raised
    /\ result.q.filter_zero
    /\ result.q.time_window = "1min"
    /\ lastOp = Op("sync", "", "1min", result.q.agg_method)
    /\ Len(get_all_data_files) = 1
    /\ LocalToUtc(result.q.start, result.q.tz) = 0
    /\ LocalToUtc(result.q.end, result.q.tz) > LastSampleTick
    /\ RawSamples # <<>>

\* The central table the raw samples give when the zero rows are removed
\* from them before they are aggregated.
FilteredThenAggregated ==
    LET kept == filter_zero_values([cols |-> {"DATETIME", "CH4_dry", "H2O"},
                                    rows |-> RawSamples], "picarro")
    IN  process_file_data_with_std(kept, "1min", result.q.agg_method)[1]

\* C14: zero-filtering acts on the raw samples before they are aggregated,
\* never on aggregated rows: the central values of a filtered result are the
\* aggregates of the samples that pass the filter.
C14_FilterBeforeAggregation ==
    FilteredQueryOverAll =>
      /\ Len(result.out.avg.rows) = Len(FilteredThenAggregated.rows)
      /\ \A i \in 1..Len(result.out.avg.rows) :
            /\ i <= Len(FilteredThenAggregated.rows)
            /\ result.out.avg.rows[i]["DATETIME"]
                 = FilteredThenAggregated.rows[i]["DATETIME"]
            /\ result.out.avg.rows[i]["CH4_dry"]
                 = FilteredThenAggregated.rows[i]["CH4_dry"]

\* C15: filter_zero_values keeps, in their order and with their values, the
\* rows in which every checked channel the table holds is non-zero, and
\* drops the others.
C15_KeepsNonZeroRows ==
    lastOp.kind = "filter_zero_values"
      => /\ ~result.out.raised
         /\ result.out.avg.rows
              = SelectSeq(aggIn.rows, LAMBDA r :
                    \A c \in CheckedChannels(lastOp.f) \cap aggIn.cols : r[c] # Rat(0))

\* C15, for the tables that hold a checked channel.
C15_KeepsNonZeroRowsOfChecked ==
    (lastOp.kind = "filter_zero_values"
       /\ CheckedChannels(lastOp.f) \cap aggIn.cols # {})
      => /\ ~result.out.raised
         /\ result.out.avg.rows
              = SelectSeq(aggIn.rows, LAMBDA r :
                    \A c \in CheckedChannels(lastOp.f) \cap aggIn.cols : r[c] # Rat(0))

\* The tables load_processed_data returns for the query of result.
LoadedForQuery ==
    load_processed_data(result.q.start, result.q.end, result.q.tz,
                        result.q.time_window, result.q.agg_method)

\* C16: when the H2O column of the central table is multiplied by the
\* percent-to-ppm factor, so is the H2O column of the dispersion table (a
\* squared dispersion by the squared factor).
C16_ConversionOnBothTables ==
    (/\ result.asked /\ result.q.tz \in Timezones /\ ~result.out.raised
     /\ ~IsEmpty(result.out.avg)
     /\ "H2O" \in result.out.avg.cols /\ "H2O" \in result.out.std.cols)
      => result.out.std.rows
           = ScaleColumn(LoadedForQuery.std, "H2O", PercentToPpm * PercentToPpm).rows

\* C17: a query that finds no cached row in its range, whatever its window
\* and method, returns two empty tables and does not raise.
C17_NoCachedDataGivesEmptyPair ==
    (result.asked /\ result.q.tz \in Timezones /\ IsEmpty(CachedInRange))
      => /\ ~result.out.raised
         /\ IsEmpty(result.out.avg)
         /\ IsEmpty(result.out.std)

\* A query with the null window answered with two empty tables although the
\* cache holds rows of another method.
C17_NullWindowOnOtherMethod ==
    /\ result.asked /\ result.q.tz \in Timezones /\ IsEmpty(CachedInRange)
    /\ result.q.time_window = NoWindow
    /\ processed # <<>>
    /\ ~result.out.raised /\ IsEmpty(result.out.avg) /\ IsEmpty(result.out.std)

\* C18: a run of the page whose start is after its end performs no
\* directory scan, no file read and no cache query, and gets no
\* configuration.
C18_RejectedBeforeAnyIO ==
    (page.ran /\ page.start > page.end)
      => /\ \A i \in 1..Len(page.io) : page.io[i] \notin {DirectoryScan, "file read", CacheQuery}
         /\ page.config.none

\* C19: a sync pass over a data root that holds a bad file (one that cannot
\* be read, or that does not parse) still reprocesses every other file that
\* is readable, parses and is marked for reprocessing.
C19_BadFileNeverAborts ==
    [][(SyncStep /\ \E bad \in Paths : disk[bad].present
                                       /\ (bad \in unreadable \/ ~Parses(bad)))
         => \A f \in Paths :
               (/\ f \notin unreadable
                /\ Parses(f)
                /\ NeedsProcessing(file_records, f)
                /\ FreshRows(f, lastOp'.w, lastOp'.m) # <<>>)
                 => ReprocessedBy(f)]_vars

\* The same for a bad file that is readable but does not parse.
C19_MalformedFileSkipped ==
    [][(SyncStep /\ unreadable = {} /\ \E bad \in Paths : disk[bad].present /\ ~Parses(bad))
         => \A f \in Paths :
               (/\ Parses(f)
                /\ NeedsProcessing(file_records, f)
                /\ FreshRows(f, lastOp'.w, lastOp'.m) # <<>>)
                 => ReprocessedBy(f)]_vars

\* The table a query of the present state reads holds, for file f, either
\* the rows the running pass found or the rows it will leave.
OldOrNewRows(f) ==
    \/ RowsOfFile(processed, f) = RowsOfFile(inflight.old, f)
    \/ RowsOfFile(processed, f) = RowsOfFile(inflight.target, f)

C20_StepsComposeToPass ==
    (inflight.active /\ inflight.files = <<>>) => processed = inflight.target

\* C21: a query with the 30-second window, finer than the one-minute rows
\* of the cache, returns an empty central table and an empty dispersion
\* table whatever the cache holds.
C21_FinerWindowIsEmpty ==
    (result.asked /\ result.q.tz \in Timezones /\ result.q.time_window = "30S")
      => /\ ~result.out.raised
         /\ IsEmpty(result.out.avg)
         /\ IsEmpty(result.out.std)

\* C22 as stated: for every wall-clock instant and every zone, localizing,
\* converting to UTC and converting back gives the instant again.
C22_RoundTripEveryInstant ==
    clock.done => clock.back = clock.wall

\* C22: the round trip gives the instant again for every wall-clock instant
\* that exists in the zone, read as standard time when it exists twice; an
\* instant that the zone skips comes back one hour later.
C22_RoundTripExistingInstant ==
    clock.done =>
       /\ PossibleOffsets(clock.zone, clock.wall) # {} => clock.back = clock.wall
       /\ PossibleOffsets(clock.zone, clock.wall) = {}
            => clock.back = clock.wall + 2 * HalfHour

\* An instant of summer time in a zone that changes its offset has made the
\* round trip.
C22_SummerInstantConverted ==
    /\ clock.done
    /\ ZoneRules[clock.zone].dst # ZoneRules[clock.zone].std
    /\ PossibleOffsets(clock.zone, clock.wall) = {ZoneRules[clock.zone].dst}
    /\ clock.back = clock.wall

\* C23: every table a parser returns has a timestamp column in UTC, one
\* timestamp per row: a Format A timestamp is the reading of the file, a
\* Format B timestamp is the reading less eight hours.
C23_ParsedTimestampsAreUtc ==
    (parse.done /\ ~parse.out.none)
      => /\ parse.out.zone = "UTC"
         /\ Len(parse.out.DATETIME) = Len(parse.out.rows)
         /\ parse.parser = "_load_pico_file"
              => \A i \in 1..Len(parse.out.rows) :
                    parse.csv.stamps[i] # NaT
                      => parse.out.DATETIME[i] = parse.csv.stamps[i] - 16 * HalfHour

\* The same for the tables of the parsers of data/loader.py whose file has
\* the columns the timestamp is read from.
C23_LoaderTimestampsAreUtc ==
    (/\ parse.done /\ ~parse.out.none
     /\ parse.parser \in {"_load_picarro_file", "_load_pico_file"}
     /\ \/ parse.csv.stamped
        \/ parse.csv = NoCsv /\ {"DATE", "TIME"} \subseteq Range(parse.out.headers))
      => /\ parse.out.zone = "UTC"
         /\ Len(parse.out.DATETIME) = Len(parse.out.rows)

\* The indices of the lines of the parsed file that start with the marker.
MarkerLines == {i \in 1..Len(parse.lines) : StartsWithMarker(parse.lines[i])}

\* The first of them, the header line.
FirstMarker == CHOOSE i \in MarkerLines : \A j \in MarkerLines : i <= j

\* The indices of the lines after the header that are not empty and have at
\* least as many tokens as the header.
LongEnoughLines ==
    {i \in (FirstMarker + 1)..Len(parse.lines) :
        /\ parse.lines[i] # <<>>
        /\ Len(parse.lines[i]) >= Len(parse.lines[FirstMarker])}

C25_DiscoverySortedNoDuplicates ==
    listing.done =>
       /\ \A i \in 1..(Len(listing.out) - 1) :
             PathKey(listing.out[i]) < PathKey(listing.out[i + 1])
       /\ \A i \in 1..Len(listing.out) :
             LET path == listing.out[i]
             IN  /\ Len(path) > 1 => \A k \in 1..(Len(path) - 1) : IsDigit(path[k])
                 /\ Len(path) = 1 => ~HasExcludedName(path[1])

\* The same for the two functions that test every directory name.
C25_TestedNamesSortedNoDuplicates ==
    (listing.done /\ listing.by \in {"get_all_data_files pico", "get_data_files"})
      => /\ \A i \in 1..(Len(listing.out) - 1) :
               PathKey(listing.out[i]) < PathKey(listing.out[i + 1])
         /\ \A i \in 1..Len(listing.out) :
               LET path == listing.out[i]
               IN  /\ Len(path) > 1 => \A k \in 1..(Len(path) - 1) : IsDigit(path[k])
                   /\ Len(path) = 1 => ~HasExcludedName(path[1])

\* A one-minute query without zero-filtering on the cache that one
\* one-minute pass of the queried method has built on a new database.
MinuteQueryAfterSync ==
    /\ result.asked /\ result.q.tz \in Timezones
    /\ result.q.time_window = "1min" /\ ~result.q.filter_zero
    /\ lastOp = Op("sync", "", "1min", result.q.agg_method)
    /\ prevOp = Op("init", "", "", "")

\* The one-minute buckets of the samples of file f that lie in the queried
\* range converted to UTC, the end bound left out.
BucketsInRange(f) ==
    {BucketOf(r["DATETIME"], WindowTicks("1min")) :
        r \in {x \in Range(load_picarro_file(disk[f].content).df.rows) :
                 /\ LocalToUtc(result.q.start, result.q.tz)
                      <= BucketOf(x["DATETIME"], WindowTicks("1min"))
                 /\ BucketOf(x["DATETIME"], WindowTicks("1min"))
                      < LocalToUtc(result.q.end, result.q.tz)}}

RowsOfContent(c, f, w, m) ==
    LET agg == process_file_data_with_std(load_picarro_file(c).df, w, m)
    IN  insert_processed_data_to_db(<<>>, agg[1], agg[2], w, m, f)

C27_RecordedRowsNotStale ==
    \A f \in Paths :
       file_records[f].present
         => \A w \in SyncWindows, m \in AggMethods :
               RowsOfKey(processed, f, w, m)
                 \in {<<>>, RowsOfContent(file_records[f].hash, f, w, m)}

\* C28: when a sync pass of window w and method m has completed, every
\* discovered file that parses to a non-empty table has aggregate rows
\* stored under (file, w, m), whatever earlier passes recorded.
C28_EveryFileCoveredPerKey ==
    lastOp.kind = "sync"
      => \A f \in Paths :
            (Parses(f) /\ FreshRows(f, lastOp.w, lastOp.m) # <<>>)
              => RowsOfKey(processed, f, lastOp.w, lastOp.m) # <<>>

\* The stored rows of the queried method and of window w whose bucket
\* timestamp lies between the bounds of the query converted to UTC, both
\* bounds included.
StoredBetweenBounds(w) ==
    SelectSeq(processed, LAMBDA r :
        /\ r.time_window = w
        /\ r.agg_method = result.q.agg_method
        /\ LocalToUtc(result.q.start, result.q.tz) <= r["DATETIME"]
        /\ r["DATETIME"] <= LocalToUtc(result.q.end, result.q.tz))

\* C29: the one-minute rows a query reads from the store are exactly the
\* stored rows of its window and method with start <= t <= end, the row at
\* the end bound included, in ascending order of t.
C29_RangeBoundsInclusive ==
    (result.asked /\ result.q.tz \in Timezones)
      => /\ Len(CachedInRange.rows) = Len(StoredBetweenBounds("1min"))
         /\ Range(Column(CachedInRange.rows, "DATETIME"))
              = Range(Column(StoredBetweenBounds("1min"), "DATETIME"))
         /\ \A i \in 1..(Len(CachedInRange.rows) - 1) :
               CachedInRange.rows[i]["DATETIME"] <= CachedInRange.rows[i + 1]["DATETIME"]

\* Row i (from 0) of the plotted table has a value and a dispersion.
ValidRow(i) == ~IsNaN(plot.rows[i + 1].value) /\ ~IsNaN(plot.rows[i + 1].std)

\* The upper-bound traces, one per band drawn, in the order drawn.
UpperTraces == SelectSeq(plot.traces, LAMBDA t : t.name = "band")

LowerTraces == SelectSeq(plot.traces, LAMBDA t : t.name = "")

\* C30: for a table with a plotted value and an averaged window, the bands
\* drawn are one lower and upper pair per maximal run of rows with value
\* and dispersion: the runs are in ascending order and disjoint, hold no
\* row with a missing value or dispersion, hold every valid row, and at
\* most one band shows the legend entry.
C30_BandPerMaximalRun ==
    (plot.done /\ ~plot.raw /\ \E i \in 1..Len(plot.rows) : ~IsNaN(plot.rows[i].value))
      => /\ Len(LowerTraces) = Len(UpperTraces)
         /\ \A k \in 1..Len(UpperTraces) :
               LET t == UpperTraces[k]
               IN  /\ LowerTraces[k].from = t.from /\ LowerTraces[k].to = t.to
                   /\ 0 <= t.from /\ t.from < t.to /\ t.to <= Len(plot.rows)
                   /\ \A i \in t.from..(t.to - 1) : ValidRow(i)
                   /\ t.from = 0 \/ ~ValidRow(t.from - 1)
                   /\ t.to = Len(plot.rows) \/ ~ValidRow(t.to)
                   /\ k < Len(UpperTraces) => t.to <= UpperTraces[k + 1].from
         /\ \A i \in 0..(Len(plot.rows) - 1) :
               ValidRow(i)
                 => Cardinality({k \in 1..Len(UpperTraces) :
                                   UpperTraces[k].from <= i /\ i < UpperTraces[k].to}) = 1
         /\ Cardinality({k \in 1..Len(plot.traces) :
                           plot.traces[k].name # "main" /\ plot.traces[k].showlegend}) <= 1

\* A table with two runs, the second reaching the last row and the first
\* not starting at the first row, has been plotted with two bands.
C30_TwoRunsPlotted ==
    /\ plot.done /\ ~plot.raw
    /\ Len(UpperTraces) = 2
    /\ UpperTraces[1].from > 0
    /\ UpperTraces[2].to = Len(plot.rows)
====
